---- MODULE Spec2Model ----
(***************************************************************************)
(* rs-readme: the request-serving pipeline of src/src/web_server.rs and    *)
(* src/src/static_files.rs (page routes, static routes and the live-update *)
(* event stream), with the file-backed content finder of                   *)
(* src/src/content_finder.rs and the mock finders of                       *)
(* src/tests/route_tests.rs.  A request target goes through the Url        *)
(* parser before a handler reads its path.                                 *)
(*                                                                         *)
(* Strings are sequences of lexical tokens.  A token is a unit that no     *)
(* operator of the program looks inside: a path separator "/", a dot, a    *)
(* name, a special character such as "&", or a whole literal of a          *)
(* template.  Concatenation is \o, so format!, split, starts_with,         *)
(* extension and HTML escaping are computed on the tokens as the code      *)
(* computes them on the characters.                                        *)
(*                                                                         *)
(* The state space is finite without counters: requests, header values,    *)
(* file contents and converter answers are drawn from the finite sets      *)
(* below, a connection returns to idle once answered, and files may be     *)
(* edited any number of times.  Two connections are in flight at once; no  *)
(* property below relates more than two requests.                          *)
(***************************************************************************)
EXTENDS Integers, Sequences, FiniteSets, TLC

\* connections served at the same time (one task per inbound connection)
Conns == { "c1", "c2" }

\* ------------------------------------------------------------ string helpers
StartsWith(s, p) == Len(s) >= Len(p) /\ SubSeq(s, 1, Len(p)) = p

EndsWith(s, p) == Len(s) >= Len(p) /\ SubSeq(s, Len(s) - Len(p) + 1, Len(s)) = p

Contains(s, t) == \E i \in 1..(Len(s) + 1) : i + Len(t) - 1 <= Len(s) /\ SubSeq(s, i, i + Len(t) - 1) = t

\* index of the last occurrence of token t in s, 0 when there is none
LastIndexOf(s, t) == IF \E i \in 1..Len(s) : s[i] = t THEN CHOOSE i \in 1..Len(s) : s[i] = t /\ \A j \in (i + 1)..Len(s) : s[j] # t ELSE 0

\* path.split('/').last(): what follows the last "/" (the whole string when there is none)
LastSegment(s) == SubSeq(s, LastIndexOf(s, "/") + 1, Len(s))

\* s.split('/'): the pieces between the "/" tokens
RECURSIVE Split(_)
Split(s) ==
    IF \E i \in 1..Len(s) : s[i] = "/"
    THEN LET i == CHOOSE k \in 1..Len(s) : s[k] = "/" /\ \A j \in 1..(k - 1) : s[j] # "/"
         IN  <<SubSeq(s, 1, i - 1)>> \o Split(SubSeq(s, i + 1, Len(s)))
    ELSE <<s>>

\* the pieces joined with "/" again
RECURSIVE Join(_)
Join(segs) == IF segs = <<>> THEN <<>> ELSE IF Len(segs) = 1 THEN segs[1] ELSE segs[1] \o <<"/">> \o Join(Tail(segs))

\* horrorshow escapes every `: expr` that is not Raw
EscapeToken(t) == IF t = "&" THEN "&amp;" ELSE IF t = "<" THEN "&lt;" ELSE IF t = ">" THEN "&gt;" ELSE IF t = "\"" THEN "&quot;" ELSE t

Escape(s) == [i \in 1..Len(s) |-> EscapeToken(s[i])]

\* format!("\"{}\"", digest)
Quote(s) == <<"\"">> \o s \o <<"\"">>

\* Sha1 of a byte string in lowercase hex: an injective image of the bytes
\* (collisions are not modelled)
Sha1Hex(bytes) == <<"sha1(">> \o bytes \o <<")">>

\* Sha1::digest(bytes): the 20 raw bytes of the same digest
Sha1_digest(bytes) == <<"sha1-bytes(">> \o bytes \o <<")">>

\* format!("{:x}", hash): a raw digest in lowercase hex (a hash that is text already formats as itself)
LowerHex(hash) == IF hash # <<>> /\ Head(hash) = "sha1-bytes(" THEN Sha1Hex(SubSeq(hash, 2, Len(hash) - 1)) ELSE hash

\* serde_json writes a string between quotes, with quote, backslash and newline escaped
JsonEscapeToken(t) == IF t = "\"" THEN "\\\"" ELSE IF t = "\\" THEN "\\\\" ELSE IF t = "\n" THEN "\\n" ELSE t

JsonUnescapeToken(t) == IF t = "\\\"" THEN "\"" ELSE IF t = "\\\\" THEN "\\" ELSE IF t = "\\n" THEN "\n" ELSE t

JsonString(s) == <<"\"">> \o [i \in 1..Len(s) |-> JsonEscapeToken(s[i])] \o <<"\"">>

\* JSON.parse of an object of string members, read after its "{" or a ",": key -> value
RECURSIVE JsonMembers(_)
JsonMembers(s) ==
    IF Len(s) < 7 THEN <<>>
    ELSE LET e == CHOOSE k \in 7..Len(s) : s[k] = "\"" /\ \A j \in 7..(k - 1) : s[j] # "\""
             value == [i \in 1..(e - 7) |-> JsonUnescapeToken(s[i + 6])]
         IN  (s[3] :> value) @@ JsonMembers(SubSeq(s, e + 1, Len(s)))

JSON_parse(data) == JsonMembers(data)

\* ------------------------------------------------------------ request paths
README == <<"README", ".", "md">>

RootPath == <<"/">>

FilePaths == { <<"/", "foo", ".", "md">>, <<"/", "foo", ".", "txt">>, <<"/", "test_dir", "/", "a", "&", "b", ".", "md">>, <<"/", "a", "&", "b", ".", "txt">> }

OcticonsPrefix == <<"/", "static", "/", "octicons", "/">>

OcticonFiles == { <<"octicons", ".", "css">>, <<"octicons", ".", "eot">>, <<"octicons", ".", "svg">>, <<"octicons", ".", "ttf">>, <<"octicons", ".", "woff">>, <<"octicons", ".", "woff", "2">>, <<"octicons", ".", "png">>, <<"other", ".", "css">>, <<"octicons", ".", "css", ".", "map">> }

OcticonPaths == { OcticonsPrefix \o f : f \in OcticonFiles }

StylePath == <<"/", "static", "/", "style", ".", "css">>

LiveUpdatePrefix == <<"/", "__rs-readme", "/">>

\* request targets as they arrive on the wire, before Url parsing: with ".."
\* segments, with percent-encoded dots, and with a second leading slash
DotTargets == { <<"/", ".", ".", "/", "foo", ".", "md">>, <<"/", "test_dir", "/", ".", ".", "/", ".", ".", "/", "foo", ".", "md">>, <<"/", "%2e", "%2e", "/", "foo", ".", "md">>, <<"/", "/", "foo", ".", "md">> }

\* a "." or ".." path segment, as the Url parser recognises it (also percent-encoded)
IsSingleDot(seg) == seg \in { <<".">>, <<"%2e">> }

IsDoubleDot(seg) == Len(seg) = 2 /\ \A i \in 1..2 : seg[i] \in { ".", "%2e" }

\* the Url parser drops "." segments and lets ".." remove the segment before it, never above "/"
RECURSIVE RemoveDotSegments(_, _)
RemoveDotSegments(segs, out) ==
    IF segs = <<>> THEN out
    ELSE IF IsSingleDot(Head(segs)) THEN RemoveDotSegments(Tail(segs), IF Len(segs) = 1 THEN Append(out, <<>>) ELSE out)
    ELSE IF IsDoubleDot(Head(segs))
         THEN LET popped == IF out = <<>> THEN out ELSE SubSeq(out, 1, Len(out) - 1)
              IN  RemoveDotSegments(Tail(segs), IF Len(segs) = 1 THEN Append(popped, <<>>) ELSE popped)
    ELSE RemoveDotSegments(Tail(segs), Append(out, Head(segs)))

\* req.url().path(): the path of the parsed request target
Url_path(target) == <<"/">> \o Join(RemoveDotSegments(Split(Tail(target)), <<>>))

\* ------------------------------------------------------------ content
Texts == { <<"# A Readme">>, <<"- B's content", "<p id=rs-readme-content>", "inline HTML", "</p>">> }


\* files of the root folder that FileFinder can open, by path relative to the root
DiskFiles == { README, <<"foo", ".", "md">> }

\* State<M, C> is generic: the finders and converters it is instantiated with
Finders == { "FileFinder", "MockFinder", "MockFinderError" }

ConverterKinds == { "Github", "Offline" }

GithubHtmls == { <<"<h1>A Readme</h1>">>, <<"<ul><li>B's content</li></ul>">> }

\* what the API sends with an error status
GithubErrorBodies == { <<"API rate limit exceeded">> }

VARIABLES
    finder,     \* State.content_finder: which ContentFinder the server was built with
    converter,  \* State.markdown_converter: which variant of Converters
    files,      \* the root folder: file -> {} (absent) or {text}
    conn,       \* per connection: the request in flight and its response
    browser,    \* a page open in a browser: the state of its embedded script
    api         \* the last exchange of a GitHub converter with the API, and what was made of it

vars == <<finder, converter, files, conn, browser, api>>

\* ------------------------------------------------------------ typed failures
NotMarkdown == [kind |-> "NotMarkdown", arg |-> <<>>]

CouldNotFetch(resource) == [kind |-> "CouldNotFetch", arg |-> resource]

ConverterUnavailable(reason) == [kind |-> "ConverterUnavailable", arg |-> reason]

ContentOk(text, hash) == [ok |-> TRUE, text |-> text, hash |-> hash, err |-> NotMarkdown]

ContentErr(e) == [ok |-> FALSE, text |-> <<>>, hash |-> <<>>, err |-> e]

\* impl Display for ContentError: resource.replacen("./", "", 1) drops the first "./"
replacen_dot_slash(s) ==
    IF \E i \in 1..(Len(s) - 1) : s[i] = "." /\ s[i + 1] = "/"
    THEN LET i == CHOOSE k \in 1..(Len(s) - 1) : s[k] = "." /\ s[k + 1] = "/" /\ \A j \in 1..(k - 1) : ~(s[j] = "." /\ s[j + 1] = "/")
         IN  SubSeq(s, 1, i - 1) \o SubSeq(s, i + 2, Len(s))
    ELSE s

ContentError_fmt(e) == IF e.kind = "CouldNotFetch" THEN <<"Could not find ">> \o replacen_dot_slash(e.arg) ELSE <<"The file was not markdown">>

\* impl Display for MarkdownError
MarkdownError_fmt(e) == <<"Could not convert", "\n">> \o e.arg

\* ------------------------------------------------------------ content finders
\* Path::extension of the final component: what follows its last dot, unless
\* there is no dot or the only dot leads the name
Extension(path) ==
    LET name == LastSegment(path)
        dot == LastIndexOf(name, ".")
    IN  IF dot <= 1 THEN <<>> ELSE SubSeq(name, dot + 1, Len(name))

\* the file that root/<components> names: "" and "." components stay in place,
\* ".." goes to the parent, and a ".." with nothing left below the root leaves it
RECURSIVE Resolve(_, _)
Resolve(segs, stack) ==
    IF segs = <<>> THEN [outside |-> FALSE, rel |-> Join(stack)]
    ELSE IF Head(segs) = <<>> \/ Head(segs) = <<".">> THEN Resolve(Tail(segs), stack)
    ELSE IF Head(segs) = <<".", ".">>
         THEN IF stack = <<>> THEN [outside |-> TRUE, rel |-> Join(segs)]
              ELSE Resolve(Tail(segs), SubSeq(stack, 1, Len(stack) - 1))
    ELSE Resolve(Tail(segs), Append(stack, Head(segs)))

\* root.push(resource) and the file File::open finds there: an absolute resource
\* replaces the root, a relative one is looked up below it
PathPush(resource) == IF StartsWith(resource, <<"/">>) THEN [outside |-> TRUE, rel |-> resource] ELSE Resolve(Split(resource), <<>>)

\* what a Markdown file outside the root folder holds
OutsideText == <<"outside the root">>

\* mutant: the digest is taken of the path, not of the contents read
M_FileFinder_content_for_digest_of_path(resource) ==
    LET path == PathPush(resource)
    IN  IF Extension(resource) # <<"md">> THEN ContentErr(NotMarkdown)
        ELSE IF path.outside THEN ContentOk(OutsideText, Sha1_digest(path.rel))
        ELSE IF path.rel \notin DOMAIN files \/ files[path.rel] = {} THEN ContentErr(CouldNotFetch(resource))
        ELSE LET contents == CHOOSE t \in files[path.rel] : TRUE
             IN  ContentOk(contents, Sha1_digest(path.rel))

\* mutant: the file is opened before its extension is looked at
M_FileFinder_content_for_opens_first(resource) ==
    LET path == PathPush(resource)
    IN  IF path.outside THEN ContentOk(OutsideText, Sha1_digest(OutsideText))
        ELSE IF path.rel \notin DOMAIN files \/ files[path.rel] = {} THEN ContentErr(CouldNotFetch(resource))
        ELSE IF Extension(resource) # <<"md">> THEN ContentErr(NotMarkdown)
        ELSE LET contents == CHOOSE t \in files[path.rel] : TRUE
             IN  ContentOk(contents, Sha1_digest(contents))

FileFinder_content_for(resource) ==
    LET path == PathPush(resource)
    IN  IF Extension(resource) # <<"md">> THEN ContentErr(NotMarkdown)
        ELSE IF path.outside THEN ContentOk(OutsideText, Sha1_digest(OutsideText))
        ELSE IF path.rel \notin DOMAIN files \/ files[path.rel] = {} THEN ContentErr(CouldNotFetch(resource))
        ELSE LET contents == CHOOSE t \in files[path.rel] : TRUE
             IN  ContentOk(contents, Sha1_digest(contents))

MockFinder_content_for(resource) == ContentOk(<<"# A Readme">>, <<"foo">>)

MockFinderError_content_for(resource) == ContentErr(NotMarkdown)

content_for(resource) ==
    IF finder = "FileFinder" THEN FileFinder_content_for(resource)
    ELSE IF finder = "MockFinder" THEN MockFinder_content_for(resource)
    ELSE MockFinderError_content_for(resource)

\* ------------------------------------------------------------ converters
ConvertOk(html) == [ok |-> TRUE, html |-> html, err |-> NotMarkdown]

ConvertErr(reason) == [ok |-> FALSE, html |-> <<>>, err |-> ConverterUnavailable(reason)]

\* pulldown-cmark is a function of the Markdown text
OfflineConverter_convert_markdown(md) == ConvertOk(<<"<cmark>">> \o md \o <<"</cmark>">>)

\* an exchange with the API: the request could not be made, the response did
\* not arrive, or a response with a status and a body arrived
ApiAnswer(transport, status, body) == [transport |-> transport, status |-> status, body |-> body]

\* StatusCode::is_client_error, StatusCode::is_server_error
is_client_error(status) == 400 <= status /\ status <= 499

is_server_error(status) == 500 <= status /\ status <= 599

\* mutant: only a status above 400 is an error
M_GitHubConverter_result_above_400(answer) ==
    IF answer.transport = "request failed" THEN ConvertErr(<<"Error making request">>)
    ELSE IF answer.transport = "no response" THEN ConvertErr(<<"Error awaiting response">>)
    ELSE IF answer.status > 400 THEN ConvertErr(answer.body)
    ELSE ConvertOk(answer.body)

\* converter/github_converter.rs: what convert_markdown makes of the exchange
GitHubConverter_result(answer) ==
    IF answer.transport = "request failed" THEN ConvertErr(<<"Error making request">>)
    ELSE IF answer.transport = "no response" THEN ConvertErr(<<"Error awaiting response">>)
    ELSE IF answer.status >= 400 THEN ConvertErr(answer.body)
    ELSE ConvertOk(answer.body)

\* markdown_converter.rs, the earlier implementation: what convert_markdown makes of the exchange
Converter_result(answer) ==
    IF answer.transport = "request failed" THEN ConvertErr(<<"Error serializing request body">>)
    ELSE IF answer.transport = "no response" THEN ConvertErr(<<"Error awaiting response">>)
    ELSE IF is_client_error(answer.status) \/ is_server_error(answer.status) THEN ConvertErr(answer.body)
    ELSE ConvertOk(answer.body)

\* the exchanges a page or an update is rendered through
ApiAnswers ==
    { ApiAnswer("ok", 200, h) : h \in GithubHtmls } \cup { ApiAnswer("ok", 403, b) : b \in GithubErrorBodies } \cup { ApiAnswer("no response", 0, <<>>) }

\* what the GitHub API call can come back with, whatever the text
GitHubConverter_convert_markdown(md) == { GitHubConverter_result(a) : a \in ApiAnswers }

\* the results convert_markdown(md) can produce
convert_markdown(md) == IF converter = "Offline" THEN { OfflineConverter_convert_markdown(md) } ELSE GitHubConverter_convert_markdown(md)

\* ------------------------------------------------------------ page composer
BaseHead == <<"<!DOCTYPE html><html><head><link octicons.css><link frameworks.css><link site.css><link github.css><link /static/style.css>">>

UpdateScript == <<"<script>let hash = ''; new EventSource(/__rs-readme${location.pathname}) on update: if (message.hash !== hash) { hash = message.hash; getElementById('rs-readme-content').innerHTML = message.contents; }</script>">>

base_html(title, content) == BaseHead \o <<"<title>">> \o Escape(title) \o <<"</title>">> \o UpdateScript \o <<"</head>", "<body>">> \o content \o <<"</body>", "</html>">>

\* mutant: the article around the rendered HTML carries no id
M_markdown_html_article_without_id(file_name, md_content) == <<"<div class=page><div id=preview-page><div role=main><div class=container><div class=repository-content><div id=readme>", "<h3>", "<span class=octicon-book></span>">> \o Escape(<<" ">> \o file_name) \o <<"</h3>", "<article>">> \o md_content \o <<"</article>", "</div></div></div></div></div><div>&nbsp;</div></div>">>

markdown_html(file_name, md_content) == <<"<div class=page><div id=preview-page><div role=main><div class=container><div class=repository-content><div id=readme>", "<h3>", "<span class=octicon-book></span>">> \o Escape(<<" ">> \o file_name) \o <<"</h3>", "<article id=rs-readme-content>">> \o md_content \o <<"</article>", "</div></div></div></div></div><div>&nbsp;</div></div>">>

not_markdown_html(title, file) == <<"<!DOCTYPE html><html><head><title>">> \o Escape(title) \o <<"</title></head><body>", "<h1>Not a Markdown File</h1>", "<p>", "<strong>">> \o Escape(file) \o <<"</strong>", " is not a markdown file and cannot be rendered", "</p>", "</body></html>">>

file_not_found(title, file) == <<"<!DOCTYPE html><html><head><title>">> \o Escape(title) \o <<"</title></head><body>", "<h1>", "Couldn't find ">> \o Escape(file) \o <<"</h1>", "<p>For the index page <em>rs-readme</em> will look for a file named README in the root folder. Otherwise it looks for an exact file name.</p>", "</body></html>">>

\* ------------------------------------------------------------ responses
MimeHtml == "text/html;charset=utf-8"

NoContentType == "none"

\* Response::builder(status).body(body).content_type(ctype).build(); etag and error
\* are sets of at most one element (header or error absent: {})
Response(status, ctype, etag, body) == [status |-> status, ctype |-> ctype, etag |-> etag, body |-> body, error |-> {}]

\* what `?` makes of an Err: a response with the error's status, no body, the error attached
ErrorResponse(status, e) == [status |-> status, ctype |-> NoContentType, etag |-> {}, body |-> <<>>, error |-> {e}]

NoResponse == Response(0, NoContentType, {}, <<>>)


\* ------------------------------------------------------------ error middleware
\* mutant: the page names the file, not the request path
M_not_markdown_names_file(path) == Response(400, MimeHtml, {}, not_markdown_html(<<"rs-readme">>, LastSegment(path)))

ErrorMiddleware_not_markdown(path) == Response(400, MimeHtml, {}, not_markdown_html(<<"rs-readme">>, path))

\* mutant: the 404 body is the error's Display text, as plain text
M_not_found_plain_text(resource) == Response(404, "text/plain;charset=utf-8", {}, <<"Could not find ">> \o resource)

ErrorMiddleware_not_found(resource) == Response(404, MimeHtml, {}, file_not_found(<<"rs-readme">>, resource))

\* res.downcast_error::<ContentError>(): the attached error, when it is a ContentError
downcast_ContentError(res) == { e \in res.error : e.kind \in { "NotMarkdown", "CouldNotFetch" } }

\* mutant: the 404 page is built from the request path, not from the resource of the error
M_handle_not_found_of_url(url_path, res) ==
    IF downcast_ContentError(res) # {}
    THEN LET err == CHOOSE e \in downcast_ContentError(res) : TRUE
         IN  IF err.kind = "NotMarkdown" THEN ErrorMiddleware_not_markdown(url_path)
             ELSE ErrorMiddleware_not_found(url_path)
    ELSE res

\* mutant: the error page is composed but the status the handler attached is kept
M_handle_keeps_status(url_path, res) ==
    IF downcast_ContentError(res) # {}
    THEN LET err == CHOOSE e \in downcast_ContentError(res) : TRUE
             page == IF err.kind = "NotMarkdown" THEN ErrorMiddleware_not_markdown(url_path) ELSE ErrorMiddleware_not_found(err.arg)
         IN  [page EXCEPT !.status = res.status]
    ELSE res

\* mutant: every response with an error attached is rewritten
M_handle_rewrites_every_error(url_path, res) ==
    IF res.error # {}
    THEN LET err == CHOOSE e \in res.error : TRUE
         IN  IF err.kind = "NotMarkdown" THEN ErrorMiddleware_not_markdown(url_path)
             ELSE ErrorMiddleware_not_found(err.arg)
    ELSE res

ErrorMiddleware_handle(url_path, res) ==
    IF downcast_ContentError(res) # {}
    THEN LET err == CHOOSE e \in downcast_ContentError(res) : TRUE
         IN  IF err.kind = "NotMarkdown" THEN ErrorMiddleware_not_markdown(url_path)
             ELSE ErrorMiddleware_not_found(err.arg)
    ELSE res

\* ------------------------------------------------------------ page handlers
\* the resource each page handler asks the content finder for
render_readme_resource == README

\* mutant: the path is handed on as it is, without the leading "."
M_render_markdown_path_resource_bare(path) == path

render_markdown_path_resource(path) == <<".">> \o path

\* content_for(..).with_status(|| StatusCode::NotFound)?
render_readme_fetch_error(e) == ErrorResponse(404, e)

\* content_for(..)? : an error without a status of its own is a 500
render_markdown_path_fetch_error(e) == ErrorResponse(500, e)

\* mutant: the failure of the converter is shown in a 200 page
M_convert_error_as_page(e) == Response(200, MimeHtml, {}, base_html(<<"rs-readme">>, MarkdownError_fmt(e)))

\* convert_markdown(..).await?
convert_error(e) == ErrorResponse(500, e)

\* mutant: the index page is titled with the program's name
M_render_readme_page_untitled(converted) == Response(200, MimeHtml, {}, base_html(<<"rs-readme">>, markdown_html(README, converted)))

render_readme_page(converted) == Response(200, MimeHtml, {}, base_html(README, markdown_html(README, converted)))

\* mutant: the response is built without .body(resp)
M_render_markdown_path_page_no_body(path, converted) == Response(200, MimeHtml, {}, <<>>)

\* mutant: title and file name are the whole path
M_render_markdown_path_page_full_path(path, converted) == Response(200, MimeHtml, {}, base_html(path, markdown_html(path, converted)))

render_markdown_path_page(path, converted) ==
    LET file == LastSegment(path)
    IN  Response(200, MimeHtml, {}, base_html(file, markdown_html(file, converted)))

\* ------------------------------------------------------------ live update
\* the resource render_page_update asks the content finder for: the path after
\* "/__rs-readme", with ./README.md for "/"
\* mutant: the root is not mapped to the index file
M_render_page_update_resource_no_index(path) == <<".">> \o SubSeq(path, Len(<<"/", "__rs-readme">>) + 1, Len(path))

render_page_update_resource(path) ==
    LET rest == SubSeq(path, Len(<<"/", "__rs-readme">>) + 1, Len(path))
    IN  IF rest = <<"/">> THEN <<".", "/">> \o README ELSE <<".">> \o rest

\* sender.send("update", json!({"contents": converted, "hash": format!("{:x}", hash)}), None)
\* json!({"contents": converted, "hash": format!("{:x}", hash)}).to_string()
update_message(converted, hash) == <<"{", "\"", "contents", "\"", ":">> \o JsonString(converted) \o <<",", "\"", "hash", "\"", ":">> \o JsonString(LowerHex(hash)) \o <<"}">>

\* mutant: the digest is written in uppercase hex
M_update_event_upper_hex(converted, hash) == [event |-> "update", data |-> <<"{", "\"", "contents", "\"", ":">> \o JsonString(converted) \o <<",", "\"", "hash", "\"", ":">> \o JsonString(<<"SHA1(">> \o Tail(LowerHex(hash))) \o <<"}">>]

update_event(converted, hash) == [event |-> "update", data |-> update_message(converted, hash)]

\* what tide::sse::endpoint answers before the handler runs
SseResponse == Response(200, "text/event-stream", {}, <<>>)

\* ------------------------------------------------------------ static files
OCTICON_CSS == <<"bytes:octicons.css">>

OCTICON_EOT == <<"bytes:octicons.eot">>

OCTICON_SVG == <<"bytes:octicons.svg">>

OCTICON_TTF == <<"bytes:octicons.ttf">>

OCTICON_WOFF == <<"bytes:octicons.woff">>

OCTICON_WOFF2 == <<"bytes:octicons.woff2">>

STYLE_CSS == <<"bytes:style.css">>

\* mutant: the header value is compared with its quotes stripped
M_static_arm_strips_quotes(payload, mime, if_none_match) ==
    LET digest == Quote(Sha1Hex(payload))
    IN  IF if_none_match = {digest} \/ if_none_match = {Sha1Hex(payload)} THEN Response(304, NoContentType, {}, <<>>)
        ELSE Response(200, mime, {digest}, payload)

\* one arm of octicons / the body of style: 304 on a verbatim match, else the payload
static_arm(payload, mime, if_none_match) ==
    LET digest == Quote(Sha1Hex(payload))
    IN  IF if_none_match = {digest} THEN Response(304, NoContentType, {}, <<>>)
        ELSE Response(200, mime, {digest}, payload)

\* mutant: the .woff arm comes before the .woff2 arm
M_octicons_woff_first(file, if_none_match) ==
    IF StartsWith(file, <<"octicons", ".", "css">>) THEN static_arm(OCTICON_CSS, "text/css; charset=utf-8", if_none_match)
    ELSE IF StartsWith(file, <<"octicons", ".", "eot">>) THEN static_arm(OCTICON_EOT, "application/vnd.ms-fontobject", if_none_match)
    ELSE IF StartsWith(file, <<"octicons", ".", "svg">>) THEN static_arm(OCTICON_SVG, "image/svg+xml", if_none_match)
    ELSE IF StartsWith(file, <<"octicons", ".", "ttf">>) THEN static_arm(OCTICON_TTF, "font/ttf", if_none_match)
    ELSE IF StartsWith(file, <<"octicons", ".", "woff">>) THEN static_arm(OCTICON_WOFF, "font/woff", if_none_match)
    ELSE IF StartsWith(file, <<"octicons", ".", "woff", "2">>) THEN static_arm(OCTICON_WOFF2, "font/woff2", if_none_match)
    ELSE Response(404, "text/html", {}, <<"This file does not exist">>)

\* mutant: the asset is chosen by the end of the file name
M_octicons_by_suffix(file, if_none_match) ==
    IF EndsWith(file, <<".", "css">>) THEN static_arm(OCTICON_CSS, "text/css; charset=utf-8", if_none_match)
    ELSE IF EndsWith(file, <<".", "eot">>) THEN static_arm(OCTICON_EOT, "application/vnd.ms-fontobject", if_none_match)
    ELSE IF EndsWith(file, <<".", "svg">>) THEN static_arm(OCTICON_SVG, "image/svg+xml", if_none_match)
    ELSE IF EndsWith(file, <<".", "ttf">>) THEN static_arm(OCTICON_TTF, "font/ttf", if_none_match)
    ELSE IF EndsWith(file, <<".", "woff", "2">>) THEN static_arm(OCTICON_WOFF2, "font/woff2", if_none_match)
    ELSE IF EndsWith(file, <<".", "woff">>) THEN static_arm(OCTICON_WOFF, "font/woff", if_none_match)
    ELSE Response(404, "text/html", {}, <<"This file does not exist">>)

octicons(file, if_none_match) ==
    IF StartsWith(file, <<"octicons", ".", "css">>) THEN static_arm(OCTICON_CSS, "text/css; charset=utf-8", if_none_match)
    ELSE IF StartsWith(file, <<"octicons", ".", "eot">>) THEN static_arm(OCTICON_EOT, "application/vnd.ms-fontobject", if_none_match)
    ELSE IF StartsWith(file, <<"octicons", ".", "svg">>) THEN static_arm(OCTICON_SVG, "image/svg+xml", if_none_match)
    ELSE IF StartsWith(file, <<"octicons", ".", "ttf">>) THEN static_arm(OCTICON_TTF, "font/ttf", if_none_match)
    ELSE IF StartsWith(file, <<"octicons", ".", "woff", "2">>) THEN static_arm(OCTICON_WOFF2, "font/woff2", if_none_match)
    ELSE IF StartsWith(file, <<"octicons", ".", "woff">>) THEN static_arm(OCTICON_WOFF, "font/woff", if_none_match)
    ELSE Response(404, "text/html", {}, <<"This file does not exist">>)

style(if_none_match) == static_arm(STYLE_CSS, "text/css; charset=utf-8", if_none_match)

\* ------------------------------------------------------------ routes
\* build_app: the endpoint a request path resolves to (the most specific route wins)
Route(path) ==
    IF path = RootPath \/ path = <<>> THEN "render_readme"
    ELSE IF StartsWith(path, OcticonsPrefix) /\ Len(path) > Len(OcticonsPrefix) /\ LastIndexOf(path, "/") = Len(OcticonsPrefix) THEN "octicons"
    ELSE IF path = StylePath THEN "style"
    ELSE IF StartsWith(path, LiveUpdatePrefix) THEN "render_page_update"
    ELSE "render_markdown_path"

\* req.param("file") of /static/octicons/:file
FileParam(path) == SubSeq(path, Len(OcticonsPrefix) + 1, Len(path))

\* ------------------------------------------------------------ requests
RequestPaths == { RootPath } \cup FilePaths \cup OcticonPaths \cup { StylePath }

\* what the browser script of a page subscribes to: /__rs-readme${location.pathname}
LiveTargets == { LiveUpdatePrefix, <<"/", "__rs-readme">> \o <<"/", "foo", ".", "md">> }

\* the request targets sent to the server
RequestTargets == RequestPaths \cup DotTargets \cup LiveTargets

\* If-None-Match of a request: absent, or one value
PageIfNoneMatch == { {}, { Quote(Sha1Hex(<<"# A Readme">>)) }, { Quote(<<"foo">>) } }

\* the targets with dot segments are sent without the header
PageIfNoneMatchOf(target) == IF target \in DotTargets THEN { {} } ELSE PageIfNoneMatch

\* the payload the tests expect at each static path
ExpectedAsset(path) ==
    IF path = StylePath THEN STYLE_CSS
    ELSE IF path = OcticonsPrefix \o <<"octicons", ".", "css">> THEN OCTICON_CSS
    ELSE IF path = OcticonsPrefix \o <<"octicons", ".", "eot">> THEN OCTICON_EOT
    ELSE IF path = OcticonsPrefix \o <<"octicons", ".", "svg">> THEN OCTICON_SVG
    ELSE IF path = OcticonsPrefix \o <<"octicons", ".", "ttf">> THEN OCTICON_TTF
    ELSE IF path = OcticonsPrefix \o <<"octicons", ".", "woff">> THEN OCTICON_WOFF
    ELSE IF path = OcticonsPrefix \o <<"octicons", ".", "woff", "2">> THEN OCTICON_WOFF2
    ELSE <<>>

\* the Content-Type the tests expect at each static path
ExpectedMime(path) ==
    IF path = StylePath THEN "text/css; charset=utf-8"
    ELSE IF path = OcticonsPrefix \o <<"octicons", ".", "css">> THEN "text/css; charset=utf-8"
    ELSE IF path = OcticonsPrefix \o <<"octicons", ".", "eot">> THEN "application/vnd.ms-fontobject"
    ELSE IF path = OcticonsPrefix \o <<"octicons", ".", "svg">> THEN "image/svg+xml"
    ELSE IF path = OcticonsPrefix \o <<"octicons", ".", "ttf">> THEN "font/ttf"
    ELSE IF path = OcticonsPrefix \o <<"octicons", ".", "woff">> THEN "font/woff"
    ELSE IF path = OcticonsPrefix \o <<"octicons", ".", "woff", "2">> THEN "font/woff2"
    ELSE "none"

\* If-None-Match of a request for a static path: absent, the validator of the
\* asset expected there, that validator without its quotes, or the validator of
\* another asset
StaticIfNoneMatch(path) ==
    { {}, { Quote(Sha1Hex(OCTICON_WOFF)) } } \cup
    (IF ExpectedAsset(path) = <<>> THEN {} ELSE { { Quote(Sha1Hex(ExpectedAsset(path))) }, { Sha1Hex(ExpectedAsset(path)) } })

\* ------------------------------------------------------------ state
NotFetched == ContentErr(NotMarkdown)

NotConverted == ConvertErr(<<>>)

\* pc: where the connection's handler is; route, target, path, inm: the request
\* (path is the parsed target); resource, fetches, fetched: the content_for
\* call, how many were made, and the result; renders: calls of convert_markdown; md: the text passed to it;
\* converted: its result; result: what the endpoint returned to the middleware;
\* resp: the response sent; events: the server-sent
\* events pushed on the connection; closed: the client has gone away
Idle == [pc |-> "idle", route |-> "none", target |-> <<>>, path |-> <<>>, inm |-> {}, resource |-> <<>>, fetches |-> 0, fetched |-> NotFetched, renders |-> 0, md |-> <<>>, converted |-> NotConverted, result |-> NoResponse, resp |-> NoResponse, events |-> <<>>, closed |-> FALSE]

InitFiles == [f \in DiskFiles |-> { <<"# A Readme">> }]

\* no exchange with the API yet
NoExchange == [answer |-> ApiAnswer("none", 0, <<>>), result |-> NotConverted, earlier |-> NotConverted]

\* no page is open in the browser
NoPage == [hash |-> <<>>, content |-> <<>>, last |-> <<>>]

Init ==
    /\ finder \in Finders
    /\ converter \in ConverterKinds
    /\ files = InitFiles
    /\ conn = [c \in Conns |-> Idle]
    /\ browser = NoPage
    /\ api = NoExchange

\* the request a handler was entered with, and the content_for call it made
Started(route, target, inm, resource, fetched) ==
    [Idle EXCEPT !.route = route, !.target = target, !.path = Url_path(target), !.inm = inm, !.resource = resource, !.fetches = IF route \in { "octicons", "style" } THEN 0 ELSE 1, !.fetched = fetched]

\* mutant: the response is built in a buffer that the connections share
M_Respond_in_shared_buffer(c, r, res) ==
    conn' = [d \in Conns |-> IF d = c THEN [r EXCEPT !.pc = "done", !.result = res, !.resp = ErrorMiddleware_handle(r.path, res)]
                             ELSE IF conn[d].pc = "done" THEN [conn[d] EXCEPT !.resp = ErrorMiddleware_handle(r.path, res)]
                             ELSE conn[d]]

\* the handler ran to its response: the middleware sees it on the way out
Respond(c, r, res) ==
    conn' = [conn EXCEPT ![c] = [r EXCEPT !.pc = "done", !.result = res, !.resp = ErrorMiddleware_handle(r.path, res)]]

\* the handler called convert_markdown(&contents) and is suspended on it
AwaitConvert(c, r) ==
    conn' = [conn EXCEPT ![c] = [r EXCEPT !.pc = "await_convert", !.renders = 1, !.md = r.fetched.text]]

Accept(c) ==
    /\ conn[c].pc = "idle"
    /\ UNCHANGED <<finder, converter, files, browser, api>>

\* GET / up to the await of the converter
render_readme(c, inm) ==
    /\ Accept(c)
    /\ LET resource == render_readme_resource
           fetched == content_for(resource)
           r == Started("render_readme", RootPath, inm, resource, fetched)
       IN  IF fetched.ok
           THEN AwaitConvert(c, r)
           ELSE Respond(c, r, render_readme_fetch_error(fetched.err))

\* GET /<path> up to the await of the converter
render_markdown_path(c, target, inm) ==
    /\ Accept(c)
    /\ Route(Url_path(target)) = "render_markdown_path"
    /\ LET resource == render_markdown_path_resource(Url_path(target))
           fetched == content_for(resource)
           r == Started("render_markdown_path", target, inm, resource, fetched)
       IN  IF fetched.ok
           THEN AwaitConvert(c, r)
           ELSE Respond(c, r, render_markdown_path_fetch_error(fetched.err))

\* the converter answers and the page handler finishes
ConvertReturns(c) ==
    /\ conn[c].pc = "await_convert"
    /\ \E result \in convert_markdown(conn[c].md) :
         LET r == [conn[c] EXCEPT !.converted = result]
             res == IF ~result.ok THEN convert_error(result.err)
                    ELSE IF r.route = "render_readme" THEN render_readme_page(result.html)
                    ELSE render_markdown_path_page(r.path, result.html)
         IN  Respond(c, r, res)
    /\ UNCHANGED <<finder, converter, files, browser, api>>

\* GET /static/octicons/:file
Octicons(c, path, inm) ==
    /\ Accept(c)
    /\ Route(path) = "octicons"
    /\ Respond(c, Started("octicons", path, inm, <<>>, NotFetched), octicons(FileParam(path), inm))

\* GET /static/style.css
Style(c, inm) ==
    /\ Accept(c)
    /\ Respond(c, Started("style", StylePath, inm, <<>>, NotFetched), style(inm))

\* GET /__rs-readme/<path>: tide::sse::endpoint answers with the event stream
\* and runs render_page_update, here up to the await of the converter; an Err
\* from `?` ends the handler
render_page_update(c, target) ==
    /\ Accept(c)
    /\ Route(Url_path(target)) = "render_page_update"
    /\ LET resource == render_page_update_resource(Url_path(target))
           fetched == content_for(resource)
           r == [Started("render_page_update", target, {}, resource, fetched) EXCEPT !.result = SseResponse, !.resp = ErrorMiddleware_handle(Url_path(target), SseResponse)]
       IN  IF fetched.ok
           THEN conn' = [conn EXCEPT ![c] = [r EXCEPT !.pc = "sse_await_convert", !.renders = 1, !.md = fetched.text]]
           ELSE conn' = [conn EXCEPT ![c] = [r EXCEPT !.pc = "sse_returned"]]

\* mutant: the event is pushed whether or not the stream is closed
M_render_page_update_send_ignores_close(c) ==
    /\ conn[c].pc = "sse_await_convert"
    /\ \E result \in convert_markdown(conn[c].md) :
         conn' = [conn EXCEPT ![c] = [conn[c] EXCEPT !.pc = "sse_returned", !.converted = result,
                                                     !.events = IF result.ok THEN Append(conn[c].events, update_event(result.html, conn[c].fetched.hash)) ELSE conn[c].events]]
    /\ UNCHANGED <<finder, converter, files, browser, api>>

\* mutant: the event is sent twice
M_render_page_update_send_twice(c) ==
    /\ conn[c].pc = "sse_await_convert"
    /\ \E result \in convert_markdown(conn[c].md) :
         conn' = [conn EXCEPT ![c] = [conn[c] EXCEPT !.pc = "sse_returned", !.converted = result,
                                                     !.events = IF result.ok /\ ~conn[c].closed THEN <<update_event(result.html, conn[c].fetched.hash), update_event(result.html, conn[c].fetched.hash)>> ELSE conn[c].events]]
    /\ UNCHANGED <<finder, converter, files, browser, api>>

\* the converter answers render_page_update: it sends one update event, unless
\* the converter failed or the stream is closed, and returns
render_page_update_send(c) ==
    /\ conn[c].pc = "sse_await_convert"
    /\ \E result \in convert_markdown(conn[c].md) :
         conn' = [conn EXCEPT ![c] = [conn[c] EXCEPT !.pc = "sse_returned", !.converted = result,
                                                     !.events = IF result.ok /\ ~conn[c].closed THEN Append(conn[c].events, update_event(result.html, conn[c].fetched.hash)) ELSE conn[c].events]]
    /\ UNCHANGED <<finder, converter, files, browser, api>>

\* the browser closes its EventSource while the handler is suspended
ClientDisconnect(c) ==
    /\ conn[c].pc = "sse_await_convert"
    /\ ~conn[c].closed
    /\ conn' = [conn EXCEPT ![c].closed = TRUE]
    /\ UNCHANGED <<finder, converter, files, browser, api>>

\* the response is written, or the event stream has ended, and the connection is free again
Close(c) ==
    /\ conn[c].pc \in { "done", "sse_returned" }
    /\ conn' = [conn EXCEPT ![c] = Idle]
    /\ UNCHANGED <<finder, converter, files, browser, api>>

\* somebody writes or deletes a file under the root folder
EditFile(f, v) ==
    /\ finder = "FileFinder"
    /\ files[f] # v
    /\ files' = [files EXCEPT ![f] = v]
    /\ UNCHANGED <<finder, converter, conn, browser, api>>

Next ==
    \/ \E c \in Conns, inm \in PageIfNoneMatch : render_readme(c, inm)
    \/ \E c \in Conns, target \in RequestTargets : \E inm \in PageIfNoneMatchOf(target) : render_markdown_path(c, target, inm)
    \/ \E c \in Conns : ConvertReturns(c)
    \/ \E c \in Conns, path \in RequestPaths : \E inm \in StaticIfNoneMatch(path) : Octicons(c, path, inm)
    \/ \E c \in Conns, inm \in StaticIfNoneMatch(StylePath) : Style(c, inm)
    \/ \E c \in Conns, target \in RequestTargets : render_page_update(c, target)
    \/ \E c \in Conns : render_page_update_send(c)
    \/ \E c \in Conns : ClientDisconnect(c)
    \/ \E c \in Conns : Close(c)
    \/ \E f \in DiskFiles, v \in { {} } \cup { {t} : t \in Texts } : EditFile(f, v)

Spec == Init /\ [][Next]_vars

\* ------------------------------------------------------------ GitHub converter
\* the status codes of an HTTP response
StatusCodes == 100..599

\* every exchange: a transport failure, or any status with an HTML body or an error body
AllApiAnswers ==
    { ApiAnswer("ok", st, b) : st \in StatusCodes, b \in GithubHtmls \cup GithubErrorBodies } \cup
    { ApiAnswer("request failed", 0, <<>>), ApiAnswer("no response", 0, <<>>) }

\* convert_markdown is called and runs against the API, in both implementations
GitHubConverter_exchange(answer) ==
    /\ api = NoExchange
    /\ api' = [answer |-> answer, result |-> GitHubConverter_result(answer), earlier |-> Converter_result(answer)]
    /\ UNCHANGED <<finder, converter, files, conn, browser>>

\* convert_markdown has returned its result to the caller
GitHubConverter_return ==
    /\ api # NoExchange
    /\ api' = NoExchange
    /\ UNCHANGED <<finder, converter, files, conn, browser>>

ConverterNext ==
    \/ \E answer \in AllApiAnswers : GitHubConverter_exchange(answer)
    \/ GitHubConverter_return

ConverterSpec == Init /\ [][ConverterNext]_vars

\* ------------------------------------------------------------ browser script
\* the HTML a converter can return, and the digests a finder can return
EventHtmls == GithubHtmls \cup { OfflineConverter_convert_markdown(t).html : t \in Texts }

EventDigests == { Sha1_digest(t) : t \in Texts } \cup { <<"foo">> }

\* the update events a page can receive over its EventSource, reconnections included
BrowserEvents == { update_event(h, d) : h \in EventHtmls, d \in EventDigests }

\* the page is loaded: `let hash = ''`, and rs-readme-content holds the rendered HTML of the page
script_load(html) ==
    /\ browser' = [hash |-> <<>>, content |-> html, last |-> <<>>]
    /\ UNCHANGED <<finder, converter, files, conn, api>>

\* mutant: the listener replaces the content on every event
M_script_on_update_always_replaces(e) ==
    /\ browser.content # <<>>
    /\ LET message == JSON_parse(e.data)
       IN  browser' = [hash |-> message["hash"], content |-> message["contents"], last |-> e.data]
    /\ UNCHANGED <<finder, converter, files, conn, api>>

\* the listener of 'update': if (message.hash !== hash) { hash = message.hash; innerHTML = message.contents }
script_on_update(e) ==
    /\ browser.content # <<>>
    /\ LET message == JSON_parse(e.data)
       IN  IF message["hash"] # browser.hash
           THEN browser' = [hash |-> message["hash"], content |-> message["contents"], last |-> e.data]
           ELSE browser' = [browser EXCEPT !.last = e.data]
    /\ UNCHANGED <<finder, converter, files, conn, api>>

BrowserNext ==
    \/ \E html \in EventHtmls : script_load(html)
    \/ \E e \in BrowserEvents : script_on_update(e)

BrowserSpec == Init /\ [][BrowserNext]_vars

TypeOK ==
    /\ finder \in Finders
    /\ converter \in ConverterKinds
    /\ \A c \in Conns : conn[c].pc \in { "idle", "await_convert", "done", "sse_await_convert", "sse_returned" }
    /\ \A c \in Conns : Len(conn[c].events) <= 1

\* ------------------------------------------------------------ properties
PageRoutes == { "render_readme", "render_markdown_path" }

StaticRoutes == { "octicons", "style" }

\* connection c has been answered on a page route
OnPage(c) == conn[c].pc = "done" /\ conn[c].route \in PageRoutes

\* connection c has been answered on a static route
OnStatic(c) == conn[c].pc = "done" /\ conn[c].route \in StaticRoutes

\* the validator of the content fetched on connection c
Validator(c) == Quote(LowerHex(conn[c].fetched.hash))

\* C1: a page request whose If-None-Match equals the quoted digest that the
\* content finder returns for the resource is answered 304 with an empty body,
\* and the converter is not called during it.
C1_IfNoneMatchGives304 ==
    \A c \in Conns : (OnPage(c) /\ conn[c].fetched.ok /\ conn[c].inm = { Validator(c) }) =>
        (conn[c].resp.status = 304 /\ conn[c].resp.body = <<>> /\ conn[c].renders = 0)

\* C2: every 200 response of a page route carries an ETag header whose value is
\* the double-quoted digest the content finder returned for the request.
C2_EtagIsQuotedDigest ==
    \A c \in Conns : (OnPage(c) /\ conn[c].resp.status = 200) => conn[c].resp.etag = { Validator(c) }

\* C3: a page request without If-None-Match, or with a value that is not the
\* current validator, has the converter called once; when the converter
\* succeeds the response is 200, text/html, with a non-empty body that holds
\* the converter's output.
C3_MismatchRendersAnd200 ==
    \A c \in Conns : (OnPage(c) /\ conn[c].fetched.ok /\ conn[c].inm # { Validator(c) }) =>
        /\ conn[c].renders = 1
        /\ conn[c].converted.ok =>
              /\ conn[c].resp.status = 200
              /\ conn[c].resp.ctype = MimeHtml
              /\ conn[c].resp.body # <<>>
              /\ Contains(conn[c].resp.body, conn[c].converted.html)

\* C3 witness: one request without the header and one with a stale value, both answered 200
C3_Witness ==
    \E c \in Conns, d \in Conns :
        /\ OnPage(c) /\ conn[c].fetched.ok /\ conn[c].inm = {} /\ conn[c].resp.status = 200
        /\ conn[c].route = "render_markdown_path"
        /\ OnPage(d) /\ conn[d].fetched.ok /\ conn[d].inm # {} /\ conn[d].inm # { Validator(d) } /\ conn[d].resp.status = 200

\* C4: any two 200 page responses whose source text is byte-identical carry the
\* same validator in their ETag header, whatever HTML the converter returned.
C4_SameTextSameEtag ==
    \A c \in Conns, d \in Conns :
        (OnPage(c) /\ OnPage(d) /\ conn[c].resp.status = 200 /\ conn[d].resp.status = 200 /\ conn[c].fetched.text = conn[d].fetched.text) =>
            (conn[c].resp.etag # {} /\ conn[c].resp.etag = conn[d].resp.etag)

\* connection c was answered after its content fetch failed with NotMarkdown
FailedNotMarkdown(c) == OnPage(c) /\ ~conn[c].fetched.ok /\ conn[c].fetched.err.kind = "NotMarkdown"

\* connection c was answered after its content fetch failed with CouldNotFetch
FailedNotFound(c) == OnPage(c) /\ ~conn[c].fetched.ok /\ conn[c].fetched.err.kind = "CouldNotFetch"

\* C5 as stated: NotMarkdown on a page request gives 400, text/html, a body
\* that contains the request path, and no call of the converter.
C5_NotMarkdownBodyHasPath ==
    \A c \in Conns : FailedNotMarkdown(c) =>
        /\ conn[c].resp.status = 400
        /\ conn[c].resp.ctype = MimeHtml
        /\ Contains(conn[c].resp.body, conn[c].path)
        /\ conn[c].renders = 0

\* C5 amended: NotMarkdown on a page request gives 400, text/html, a body that
\* contains the HTML-escaped request path (the path itself when it has none of
\* & < > "), and no call of the converter.
C5_NotMarkdownBodyHasEscapedPath ==
    \A c \in Conns : FailedNotMarkdown(c) =>
        /\ conn[c].resp.status = 400
        /\ conn[c].resp.ctype = MimeHtml
        /\ Contains(conn[c].resp.body, Escape(conn[c].path))
        /\ (Escape(conn[c].path) = conn[c].path => Contains(conn[c].resp.body, conn[c].path))
        /\ conn[c].renders = 0

\* C5 witness: /foo.txt and a path with an ampersand were both refused as not Markdown
C5_Witness ==
    \E c \in Conns, d \in Conns :
        /\ FailedNotMarkdown(c) /\ conn[c].path = <<"/", "foo", ".", "txt">>
        /\ FailedNotMarkdown(d) /\ Escape(conn[d].path) # conn[d].path

\* C6 as stated: NotFound(resource) on a page request gives 404 and a body that
\* contains the resource name.
C6_NotFoundBodyHasResource ==
    \A c \in Conns : FailedNotFound(c) =>
        (conn[c].resp.status = 404 /\ Contains(conn[c].resp.body, conn[c].fetched.err.arg))

\* C6 amended: NotFound(resource) on a page request gives 404 and a body that
\* contains the HTML-escaped resource name (the name itself when it has none of
\* & < > "); for the root path with NotFound("README.md") the body contains
\* README.md.
C6_NotFoundBodyHasEscapedResource ==
    \A c \in Conns : FailedNotFound(c) =>
        /\ conn[c].resp.status = 404
        /\ Contains(conn[c].resp.body, Escape(conn[c].fetched.err.arg))
        /\ (conn[c].route = "render_readme" /\ conn[c].fetched.err.arg = README) => Contains(conn[c].resp.body, README)

\* C6 witness: the root path answered 404 for README.md, and a resource with an ampersand answered 404
C6_Witness ==
    \E c \in Conns, d \in Conns :
        /\ FailedNotFound(c) /\ conn[c].route = "render_readme" /\ conn[c].fetched.err.arg = README
        /\ FailedNotFound(d) /\ Escape(conn[d].fetched.err.arg) # conn[d].fetched.err.arg

\* C7 as stated: the body of the 404 for NotFound(resource) is the plain text
\* "Could not find <resource>", not an HTML page.
C7_NotFoundBodyIsPlainText ==
    \A c \in Conns : FailedNotFound(c) =>
        (conn[c].resp.body = ContentError_fmt(conn[c].fetched.err) /\ conn[c].resp.ctype # MimeHtml)

\* C7 amended: the body of the 404 for NotFound(resource) is an HTML page
\* (Content-Type text/html) titled rs-readme whose heading reads "Couldn't find "
\* followed by the HTML-escaped resource.
C7_NotFoundBodyIsHtmlPage ==
    \A c \in Conns : FailedNotFound(c) =>
        /\ conn[c].resp.status = 404
        /\ conn[c].resp.ctype = MimeHtml
        /\ StartsWith(conn[c].resp.body, <<"<!DOCTYPE html><html><head><title>", "rs-readme">>)
        /\ Contains(conn[c].resp.body, <<"<h1>", "Couldn't find ">> \o Escape(conn[c].fetched.err.arg) \o <<"</h1>">>)

\* C7 witness: a missing file below the root was answered on the generic-file route
C7_Witness ==
    \E c \in Conns : FailedNotFound(c) /\ conn[c].route = "render_markdown_path" /\ conn[c].resp.status = 404

\* connection c was answered after the converter failed
FailedConvert(c) == OnPage(c) /\ conn[c].fetched.ok /\ conn[c].renders = 1 /\ ~conn[c].converted.ok

\* C8: when the converter fails with ConverterUnavailable(reason) on a page
\* route, the response is 500 and its body includes the reason and the Markdown
\* text that could not be converted.
C8_ConvertErrorBodyHasReasonAndMarkdown ==
    \A c \in Conns : FailedConvert(c) =>
        /\ conn[c].resp.status = 500
        /\ Contains(conn[c].resp.body, conn[c].converted.err.arg)
        /\ Contains(conn[c].resp.body, conn[c].fetched.text)

\* C9: the same content failure gives the same status on the index route and on
\* the generic-file route, NotMarkdown 400 and NotFound 404, whatever status the
\* handler attached to the error.
C9_UniformMapping ==
    /\ \A c \in Conns : FailedNotMarkdown(c) => conn[c].resp.status = 400
    /\ \A c \in Conns : FailedNotFound(c) => conn[c].resp.status = 404
    /\ \A c \in Conns, d \in Conns :
          (OnPage(c) /\ OnPage(d) /\ ~conn[c].fetched.ok /\ ~conn[d].fetched.ok /\ conn[c].fetched.err.kind = conn[d].fetched.err.kind) =>
              conn[c].resp.status = conn[d].resp.status

\* C9 witness: the index route and the generic-file route both answered the same kind of failure
C9_Witness ==
    \E c \in Conns, d \in Conns :
        /\ FailedNotMarkdown(c) /\ conn[c].route = "render_readme"
        /\ FailedNotMarkdown(d) /\ conn[d].route = "render_markdown_path"
        /\ render_readme_fetch_error(NotMarkdown).status # render_markdown_path_fetch_error(NotMarkdown).status

\* C10: a request for a bundled asset that does not carry the asset's validator
\* is answered 200 with the bundled payload as body, the Content-Type of its
\* kind, and an ETag that is the double-quoted SHA-1 hex digest of the body.
C10_StaticAssetServed ==
    \A c \in Conns : (OnStatic(c) /\ ExpectedAsset(conn[c].path) # <<>> /\ conn[c].inm # { Quote(Sha1Hex(ExpectedAsset(conn[c].path))) }) =>
        /\ conn[c].resp.status = 200
        /\ conn[c].resp.body = ExpectedAsset(conn[c].path)
        /\ conn[c].resp.ctype = ExpectedMime(conn[c].path)
        /\ conn[c].resp.etag = { Quote(Sha1Hex(conn[c].resp.body)) }

\* C10 witness: octicons.woff2 and style.css were both served
C10_Witness ==
    \E c \in Conns, d \in Conns :
        /\ OnStatic(c) /\ conn[c].path = OcticonsPrefix \o <<"octicons", ".", "woff", "2">> /\ conn[c].resp.status = 200
        /\ OnStatic(d) /\ conn[d].path = StylePath /\ conn[d].resp.status = 200

\* C11: for every bundled asset, a request whose If-None-Match is exactly the
\* asset's validator (the double-quoted SHA-1 hex digest of the payload) is
\* answered 304; with any other value, or without the header, it is answered 200
\* with the payload.  The comparison is verbatim on the quoted form.
C11_StaticIfNoneMatch ==
    \A c \in Conns : (OnStatic(c) /\ ExpectedAsset(conn[c].path) # <<>>) =>
        LET validator == Quote(Sha1Hex(ExpectedAsset(conn[c].path)))
        IN  /\ conn[c].inm = { validator } => conn[c].resp.status = 304
            /\ conn[c].inm # { validator } => (conn[c].resp.status = 200 /\ conn[c].resp.body = ExpectedAsset(conn[c].path))

\* C11 witness: one asset answered 304 to its validator, and an asset answered
\* 200 to its digest sent without the quotes
C11_Witness ==
    \E c \in Conns, d \in Conns :
        /\ OnStatic(c) /\ conn[c].route = "octicons" /\ conn[c].inm = { Quote(Sha1Hex(ExpectedAsset(conn[c].path))) } /\ conn[c].resp.status = 304
        /\ OnStatic(d) /\ ExpectedAsset(conn[d].path) # <<>> /\ conn[d].inm = { Sha1Hex(ExpectedAsset(conn[d].path)) } /\ conn[d].resp.status = 200

\* C12: every 304 response, on any route that answers conditional requests, has
\* an empty body and still carries the ETag header, set to the validator that
\* matched.
C12_NotModifiedKeepsEtag ==
    \A c \in Conns : (conn[c].pc = "done" /\ conn[c].resp.status = 304) =>
        (conn[c].resp.body = <<>> /\ conn[c].resp.etag # {} /\ conn[c].resp.etag = conn[c].inm)

\* connection c is in a handler that called content_for
Fetching(c) == conn[c].pc # "idle" /\ conn[c].route \in { "render_readme", "render_markdown_path", "render_page_update" }

\* C13: for every request target, with ".." segments or in an absolute-path
\* form, the resource handed to the content finder is a relative path, and the
\* file that root.push(resource) names lies below the root folder.
C13_ResourceStaysUnderRoot ==
    \A c \in Conns : Fetching(c) =>
        /\ ~StartsWith(conn[c].resource, <<"/">>)
        /\ ~PathPush(conn[c].resource).outside

\* C13 witness: a target with ".." segments and a target with two leading
\* slashes were both fetched, and FileFinder found the file below the root
C13_Witness ==
    \E c \in Conns, d \in Conns :
        /\ Fetching(c) /\ Contains(conn[c].target, <<"/", ".", ".", "/", ".", ".", "/">>) /\ finder = "FileFinder" /\ conn[c].fetched.ok
        /\ Fetching(d) /\ StartsWith(conn[d].target, <<"/", "/">>) /\ conn[d].fetched.ok

\* the title element and the file-name heading around the article of a composed page
PageShows(body, title, file_name, html) ==
    /\ Contains(body, <<"<title>">> \o title \o <<"</title>">>)
    /\ Contains(body, <<"<h3>", "<span class=octicon-book></span>", " ">> \o file_name \o <<"</h3>", "<article id=rs-readme-content>">> \o html \o <<"</article>">>)

\* C14: a request for the root path asks the content finder for exactly
\* README.md, whatever its headers, and on success the page has the title
\* README.md and the displayed file name README.md around the converter's output.
C14_IndexFetchesReadme ==
    \A c \in Conns : (conn[c].pc # "idle" /\ conn[c].route = "render_readme") =>
        /\ conn[c].resource = <<"README", ".", "md">>
        /\ (conn[c].pc = "done" /\ conn[c].fetched.ok /\ conn[c].converted.ok) =>
              (conn[c].resp.status = 200 /\ PageShows(conn[c].resp.body, <<"README", ".", "md">>, <<"README", ".", "md">>, conn[c].converted.html))

\* C14 witness: the index was served with and without an If-None-Match header
C14_Witness ==
    \E c \in Conns, d \in Conns :
        /\ OnPage(c) /\ conn[c].route = "render_readme" /\ conn[c].inm = {} /\ conn[c].resp.status = 200
        /\ OnPage(d) /\ conn[d].route = "render_readme" /\ conn[d].inm # {} /\ conn[d].resp.status = 200

\* C15: for any other path p the generic-file handler asks the content finder
\* for "." followed by p, passes exactly the fetched text to the converter, and
\* uses the last "/"-separated segment of p as page title and displayed file
\* name (written into the page HTML-escaped).
C15_GenericFetchesDotPath ==
    \A c \in Conns : (conn[c].pc # "idle" /\ conn[c].route = "render_markdown_path") =>
        LET segs == Split(conn[c].path)
            last == segs[Len(segs)]
        IN  /\ conn[c].resource = <<".">> \o conn[c].path
            /\ conn[c].renders = 1 => conn[c].md = conn[c].fetched.text
            /\ (conn[c].pc = "done" /\ conn[c].fetched.ok /\ conn[c].converted.ok) =>
                  /\ conn[c].resp.status = 200
                  /\ PageShows(conn[c].resp.body, Escape(last), Escape(last), conn[c].converted.html)
                  /\ (Escape(last) = last => PageShows(conn[c].resp.body, last, last, conn[c].converted.html))

\* C15 witness: a file in a sub-folder was fetched as ./test_dir/<file> and served, and /foo.md was served
C15_Witness ==
    \E c \in Conns, d \in Conns :
        /\ OnPage(c) /\ conn[c].route = "render_markdown_path" /\ Len(Split(conn[c].path)) > 2 /\ conn[c].resp.status = 200
        /\ StartsWith(conn[c].resource, <<".", "/", "test_dir", "/">>)
        /\ OnPage(d) /\ conn[d].path = <<"/", "foo", ".", "md">> /\ conn[d].resp.status = 200 /\ conn[d].md # <<>>

\* connection c has been answered by the octicons endpoint
OnOcticons(c) == conn[c].pc = "done" /\ conn[c].route = "octicons"

\* the bundled font-set assets by kind
OcticonKinds == { <<<<"css">>, OCTICON_CSS>>, <<<<"eot">>, OCTICON_EOT>>, <<<<"svg">>, OCTICON_SVG>>, <<<<"ttf">>, OCTICON_TTF>>, <<<<"woff">>, OCTICON_WOFF>>, <<<<"woff", "2">>, OCTICON_WOFF2>> }

\* connection c was answered with the payload, or with 304 for the validator of the payload
Served(c, payload) ==
    \/ conn[c].resp.status = 200 /\ conn[c].resp.body = payload
    \/ conn[c].resp.status = 304 /\ conn[c].inm = { Quote(Sha1Hex(payload)) }

\* C16 as stated: under /static/octicons/<file> the asset is selected by the
\* suffix of <file> among .css .eot .svg .ttf .woff .woff2 (a .woff2 name gets
\* the WOFF2 payload, never the WOFF one), and a name whose suffix is none of
\* them is answered 404.
C16_SelectedBySuffix ==
    \A c \in Conns : OnOcticons(c) =>
        LET file == FileParam(conn[c].path)
            kinds == { k \in OcticonKinds : EndsWith(file, <<".">> \o k[1]) }
        IN  /\ \A k \in kinds : Served(c, k[2])
            /\ kinds = {} => conn[c].resp.status = 404

\* C16 amended: the asset is selected by the beginning of <file>: a name that
\* starts with octicons.css, octicons.eot, octicons.svg, octicons.ttf,
\* octicons.woff2 or octicons.woff gets that asset, the longest such beginning
\* winning (octicons.woff2 gets WOFF2, never WOFF), and a name that starts with
\* none of them is answered 404.
C16_SelectedByPrefix ==
    \A c \in Conns : OnOcticons(c) =>
        LET file == FileParam(conn[c].path)
            kinds == { k \in OcticonKinds : StartsWith(file, <<"octicons", ".">> \o k[1]) }
            longest == { k \in kinds : \A j \in kinds : Len(j[1]) <= Len(k[1]) }
        IN  /\ \A k \in longest : Served(c, k[2])
            /\ kinds = {} => conn[c].resp.status = 404

\* C16 witness: octicons.css.map was served the CSS, other.css was answered 404
C16_Witness ==
    \E c \in Conns, d \in Conns :
        /\ OnOcticons(c) /\ FileParam(conn[c].path) = <<"octicons", ".", "css", ".", "map">> /\ conn[c].resp.status = 200 /\ conn[c].resp.body = OCTICON_CSS
        /\ OnOcticons(d) /\ FileParam(conn[d].path) = <<"other", ".", "css">> /\ conn[d].resp.status = 404

\* connection c is a live-update subscription
Live(c) == conn[c].pc \in { "sse_await_convert", "sse_returned" }

\* the poll of connection c fetched, rendered and pushed its event
Pushed(c) == Live(c) /\ conn[c].events # <<>>

\* C17: on one live-update connection the pushes are gated by the digest: a
\* change of the target's content is pushed once with the new digest (the
\* connection does not stop polling, with its client still connected, while the
\* content differs from the digest it pushed last), no event repeats the digest
\* of the event before it, and there is at most one render per pushed digest.
C17_DigestGating ==
    \A c \in Conns : Live(c) =>
        /\ \A i \in 1..(Len(conn[c].events) - 1) : JSON_parse(conn[c].events[i].data)["hash"] # JSON_parse(conn[c].events[i + 1].data)["hash"]
        /\ conn[c].renders <= Len(conn[c].events) + 1
        /\ (Pushed(c) /\ conn[c].pc = "sse_returned" /\ ~conn[c].closed /\ content_for(conn[c].resource).ok) =>
              LowerHex(content_for(conn[c].resource).hash) = JSON_parse(conn[c].events[Len(conn[c].events)].data)["hash"]

\* the poll of connection c failed in its fetch or in its render
PollFailed(c) == Live(c) /\ (~conn[c].fetched.ok \/ (conn[c].pc = "sse_returned" /\ ~conn[c].converted.ok))

\* C18: a fetch or render failure during a live-update poll sends no event for
\* that poll and does not end the channel: with its client still connected the
\* connection goes on polling.
C18_PollFailureSwallowed ==
    \A c \in Conns : PollFailed(c) =>
        /\ conn[c].events = <<>>
        /\ ~conn[c].closed => conn[c].pc # "sse_returned"

Remainder(c) == SubSeq(conn[c].path, Len(<<"/", "__rs-readme">>) + 1, Len(conn[c].path))

\* C20 as stated: the target of a live-update subscription is fixed by the
\* request path with the prefix stripped, and for the root remainder it is the
\* same resource identifier, README.md, that the index route fetches.
C20_RootIsIndexIdentifier ==
    \A c \in Conns : Live(c) =>
        conn[c].resource = IF Remainder(c) = <<"/">> THEN render_readme_resource ELSE <<".">> \o Remainder(c)

\* C20 amended: the target of a live-update subscription is fixed by the request
\* path with the prefix stripped: "." followed by the remainder, and for the
\* root remainder ./README.md, which names the same file as the README.md that
\* the index route fetches.
C20_RootIsIndexFile ==
    \A c \in Conns : Live(c) =>
        /\ conn[c].resource = IF Remainder(c) = <<"/">> THEN <<".", "/", "README", ".", "md">> ELSE <<".">> \o Remainder(c)
        /\ Remainder(c) = <<"/">> => PathPush(conn[c].resource) = PathPush(render_readme_resource)

\* C20 witness: a subscription for the root and the index route both read README.md from the root folder
C20_Witness ==
    \E c \in Conns, d \in Conns :
        /\ Pushed(c) /\ Remainder(c) = <<"/">> /\ finder = "FileFinder"
        /\ conn[d].route = "render_readme" /\ conn[d].fetched.ok /\ conn[d].fetched.text = conn[c].fetched.text

\* C21: every event pushed on the live-update channel is named update and its
\* data is a JSON object with exactly the members contents and hash: contents
\* is the converter's HTML for the text of the subscription's fetch, and hash is
\* the lowercase hex digest returned by that same fetch (with FileFinder the
\* SHA-1 of the very text that was rendered), whatever the file holds by the time
\* the event is sent.
C21_EventIsUpdateOfOneFetch ==
    \A c \in Conns : \A i \in 1..Len(conn[c].events) :
        LET message == JSON_parse(conn[c].events[i].data)
        IN  /\ conn[c].events[i].event = "update"
            /\ DOMAIN message = { "contents", "hash" }
            /\ conn[c].md = conn[c].fetched.text
            /\ conn[c].converted.ok /\ message["contents"] = conn[c].converted.html
            /\ message["hash"] = LowerHex(conn[c].fetched.hash)
            /\ finder = "FileFinder" => message["hash"] = Sha1Hex(conn[c].md)

\* C21 witness: an event was pushed for a file that was rewritten while the converter ran
C21_Witness ==
    \E c \in Conns :
        /\ Pushed(c) /\ finder = "FileFinder"
        /\ content_for(conn[c].resource).ok
        /\ content_for(conn[c].resource).text # conn[c].fetched.text

\* what a request is and what the finder and the converter gave it
Obtained(c) == <<conn[c].route, conn[c].path, conn[c].inm, conn[c].resource, conn[c].fetched, conn[c].renders, conn[c].converted>>

\* C22: requests are independent and stateless: the response (and the events of
\* a subscription) are a function of the request and of the finder and
\* converter results obtained during it, whatever the other connection is
\* doing; a step of one connection leaves the other connection's record alone,
\* and no handler step writes the shared state (finder, converter, files).
C22_RequestsIndependent ==
    /\ [](\A c \in Conns, d \in Conns :
            (conn[c].pc = conn[d].pc /\ conn[c].pc \in { "done", "sse_returned" } /\ Obtained(c) = Obtained(d) /\ conn[c].closed = conn[d].closed) =>
                (conn[c].resp = conn[d].resp /\ conn[c].events = conn[d].events))
    /\ [][\A c \in Conns : conn'[c] # conn[c] =>
              /\ \A d \in Conns \ { c } : conn'[d] = conn[d]
              /\ UNCHANGED <<finder, converter, files, browser, api>>]_vars

\* C22 witness: two requests for the same file overlapped, one answered while
\* the other still waits for the converter, and the file was rewritten in between
C22_Witness ==
    \E c \in Conns, d \in Conns :
        /\ OnPage(c) /\ conn[c].resp.status = 200
        /\ conn[d].pc = "await_convert" /\ conn[d].path = conn[c].path
        /\ conn[d].fetched.text # conn[c].fetched.text

\* connection c has a response that went through the middleware
Answered(c) == conn[c].pc \in { "done", "sse_await_convert", "sse_returned" }

\* C23: the error middleware leaves every response that carries no ContentError
\* unchanged in status, headers and body (pages, 304s, static assets, the event
\* stream, converter failures), and rewrites status and body only when the
\* endpoint's result carries a ContentError.
C23_MiddlewarePassesThrough ==
    \A c \in Conns : Answered(c) =>
        /\ downcast_ContentError(conn[c].result) = {} => conn[c].resp = conn[c].result
        /\ conn[c].resp # conn[c].result =>
              (\E e \in conn[c].result.error : e.kind \in { "NotMarkdown", "CouldNotFetch" } /\ conn[c].resp.status \in { 400, 404 })

\* C23 witness: a static 304 and a converter failure both passed through, the latter with its error attached
C23_Witness ==
    \E c \in Conns, d \in Conns :
        /\ OnStatic(c) /\ conn[c].resp.status = 304 /\ conn[c].resp = conn[c].result
        /\ FailedConvert(d) /\ conn[d].result.error # {} /\ conn[d].resp = conn[d].result

FileFetched(c) == Fetching(c) /\ finder = "FileFinder"

\* C25: on success FileFinder::content_for returns the text of the file with the
\* SHA-1 of exactly that text, computed anew at every call: two fetches have the
\* same digest if and only if they returned the same text (SHA-1 collisions
\* apart), also for one file read before and after it was rewritten.
C25_DigestOfReturnedText ==
    /\ \A c \in Conns : (FileFetched(c) /\ conn[c].fetched.ok) =>
          (conn[c].fetched.hash = Sha1_digest(conn[c].fetched.text) /\ LowerHex(conn[c].fetched.hash) = Sha1Hex(conn[c].fetched.text))
    /\ \A c \in Conns, d \in Conns : (FileFetched(c) /\ FileFetched(d) /\ conn[c].fetched.ok /\ conn[d].fetched.ok) =>
          (conn[c].fetched.text = conn[d].fetched.text <=> conn[c].fetched.hash = conn[d].fetched.hash)

\* C25 witness: one file was fetched before and after it was rewritten, with two digests
C25_Witness ==
    \E c \in Conns, d \in Conns :
        /\ FileFetched(c) /\ FileFetched(d) /\ conn[c].fetched.ok /\ conn[d].fetched.ok
        /\ conn[c].resource = conn[d].resource /\ conn[c].fetched.text # conn[d].fetched.text
        /\ conn[c].fetched.hash # conn[d].fetched.hash

\* C26: FileFinder::content_for answers NotMarkdown for every resource whose
\* extension is not exactly md, before the file is opened (a missing file that
\* is not .md gives NotMarkdown, never CouldNotFetch), and for an .md resource
\* that cannot be opened it answers CouldNotFetch with the resource string
\* exactly as it was passed in.
C26_NotMarkdownBeforeOpen ==
    \A c \in Conns : FileFetched(c) =>
        /\ Extension(conn[c].resource) # <<"md">> => (~conn[c].fetched.ok /\ conn[c].fetched.err = NotMarkdown)
        /\ (Extension(conn[c].resource) = <<"md">> /\ ~conn[c].fetched.ok) => conn[c].fetched.err = CouldNotFetch(conn[c].resource)

\* C26 witness: a missing .txt file was refused as not Markdown and a missing .md file was not found
C26_Witness ==
    \E c \in Conns, d \in Conns :
        /\ FileFetched(c) /\ PathPush(conn[c].resource).rel \notin DOMAIN files /\ conn[c].fetched.err = NotMarkdown /\ ~conn[c].fetched.ok
        /\ FileFetched(d) /\ ~conn[d].fetched.ok /\ conn[d].fetched.err.kind = "CouldNotFetch" /\ conn[d].fetched.err.arg = conn[d].resource

Finished(c) == conn[c].pc \in { "done", "sse_returned" }

\* C28: in the index, generic-file and live-update handlers the converter is
\* never called when the content fetch failed, and when the fetch or the render
\* failed the handler gives no 200 page and sends no update event.
C28_FailureShortCircuits ==
    \A c \in Conns : Fetching(c) =>
        /\ ~conn[c].fetched.ok => (conn[c].renders = 0 /\ conn[c].md = <<>> /\ conn[c].converted = NotConverted /\ Finished(c))
        /\ (Finished(c) /\ (~conn[c].fetched.ok \/ ~conn[c].converted.ok)) =>
              /\ conn[c].events = <<>>
              /\ conn[c].route \in PageRoutes => (conn[c].result.status # 200 /\ conn[c].resp.status # 200 /\ conn[c].result.error # {})

\* C28 witness: a page request whose fetch failed, and a subscription whose render failed
C28_Witness ==
    \E c \in Conns, d \in Conns :
        /\ OnPage(c) /\ ~conn[c].fetched.ok /\ conn[c].renders = 0
        /\ conn[d].pc = "sse_returned" /\ conn[d].fetched.ok /\ conn[d].renders = 1 /\ ~conn[d].converted.ok /\ ~conn[d].closed

ContentIdTags == { "<article id=rs-readme-content>", "<p id=rs-readme-content>" }

\* the positions in body at which an element with id rs-readme-content opens
ContentElements(body) == { i \in 1..Len(body) : body[i] \in ContentIdTags }

\* the 200 pages and the error pages of the two page routes
PageServed(c) == OnPage(c) /\ conn[c].resp.status = 200

ErrorPage(c) == OnPage(c) /\ conn[c].resp.status \in { 400, 404 }

\* the error pages hold neither the subscribing script nor an element with the id
ErrorPagesBare ==
    \A c \in Conns : ErrorPage(c) =>
        (conn[c].resp.body # <<>> /\ ~Contains(conn[c].resp.body, UpdateScript) /\ ContentElements(conn[c].resp.body) = {})

====
